---- MODULE Spec2Model ----
(***************************************************************************)
(* linky: extract the links of Markdown documents and, with --check,       *)
(* resolve each link's target and fragment.  The model follows main() of   *)
(* src/main.rs: reading the link triples, the lazy parse of each link, the *)
(* memoizing fetch cache all_targets, the mute filter and the report.      *)
(* Strings are sequences of one-character strings; an Option is a          *)
(* sequence of length 0 (None) or 1 (Some).                                *)
(***************************************************************************)
EXTENDS Integers, Sequences, FiniteSets, TLC

\* opt          the options of the run (struct Opt)
\* pc           where main is: "read", "process", "done" or "panic"
\* fileIdx      the documents of opt.file read so far
\* line         the stdin line of the current iteration of the read loop
\* links        the triples (path, linenum, link) collected so far
\* idx          the triples the processing loop has taken so far
\* all_targets  the fetch cache: base -> Targets
\* fetches      history: each call of fetch_targets, with its link and result
\* lookups      history: the links lookup_fragment ran for
\* records      history: the Record of each link that parsed
\* output       every line printed, in order, with its stream and its link
\* exitStatus   the exit status once the process has ended
\* arg, ret     the arguments and the result of a function of the program
\*              called on its own (unused in a run of main)
VARIABLES opt, pc, fileIdx, line, links, idx, all_targets,
          fetches, lookups, records, output, exitStatus, arg, ret,
          unmuted

vars == <<opt, pc, fileIdx, line, links, idx, all_targets,
          fetches, lookups, records, output, exitStatus, arg, ret,
          unmuted>>

----------------------------------------------------------------------------
(* Bounds of the model *)

\* the most link triples one run collects
MaxLinks == 2

----------------------------------------------------------------------------
(* Generic helpers on options and strings *)

None == <<>>

Some(x) == <<x>>

IsSome(o) == Len(o) = 1

Unwrap(o) == o[1]

Digits == {"0", "1", "2", "3", "4", "5", "6", "7", "8", "9"}

DigitVal(c) ==
    CASE c = "0" -> 0 [] c = "1" -> 1 [] c = "2" -> 2 [] c = "3" -> 3
      [] c = "4" -> 4 [] c = "5" -> 5 [] c = "6" -> 6 [] c = "7" -> 7
      [] c = "8" -> 8 [] c = "9" -> 9

DigitChar(d) ==
    CASE d = 0 -> "0" [] d = 1 -> "1" [] d = 2 -> "2" [] d = 3 -> "3"
      [] d = 4 -> "4" [] d = 5 -> "5" [] d = 6 -> "6" [] d = 7 -> "7"
      [] d = 8 -> "8" [] d = 9 -> "9"

\* s without its first n characters
Drop(s, n) == SubSeq(s, n + 1, Len(s))

\* the position of the first c in s, 0 when there is none
IndexOf(s, c) ==
    IF \E i \in 1..Len(s) : s[i] = c
    THEN CHOOSE i \in 1..Len(s) : s[i] = c /\ \A j \in 1..(i - 1) : s[j] # c
    ELSE 0

\* the position of the last c in s, 0 when there is none
LastIndexOf(s, c) ==
    IF \E i \in 1..Len(s) : s[i] = c
    THEN CHOOSE i \in 1..Len(s) : s[i] = c /\ \A j \in (i + 1)..Len(s) : s[j] # c
    ELSE 0

NoSpace(s) == \A i \in 1..Len(s) : s[i] # " "

AllDigits(s) == \A i \in 1..Len(s) : s[i] \in Digits

\* usize::MAX = 18446744073709551615 has 20 decimal digits
UsizeMaxDigits ==
    <<"1", "8", "4", "4", "6", "7", "4", "4", "0", "7",
      "3", "7", "0", "9", "5", "5", "1", "6", "1", "5">>

RECURSIVE StripZeros(_)
StripZeros(ds) ==
    IF Len(ds) > 1 /\ ds[1] = "0" THEN StripZeros(Tail(ds)) ELSE ds

\* ds > UsizeMaxDigits as decimal numbers (both without leading zeros)
RECURSIVE DigitsGreater(_, _)
DigitsGreater(a, b) ==
    IF Len(a) # Len(b) THEN Len(a) > Len(b)
    ELSE IF a = <<>> THEN FALSE
    ELSE IF a[1] # b[1] THEN DigitVal(a[1]) > DigitVal(b[1])
    ELSE DigitsGreater(Tail(a), Tail(b))

RECURSIVE DecimalValue(_)
DecimalValue(ds) ==
    IF ds = <<>> THEN 0
    ELSE 10 * DecimalValue(SubSeq(ds, 1, Len(ds) - 1)) + DigitVal(ds[Len(ds)])

\* str::parse::<usize>() of a string of digits: None on overflow
ParseUsize(ds) ==
    IF ds = <<>> \/ ~AllDigits(ds) \/ DigitsGreater(StripZeros(ds), UsizeMaxDigits)
    THEN None
    ELSE Some(DecimalValue(ds))

\* Display of a usize
RECURSIVE ToDecimal(_)
ToDecimal(n) ==
    IF n < 10 THEN <<DigitChar(n)>>
    ELSE Append(ToDecimal(n \div 10), DigitChar(n % 10))

----------------------------------------------------------------------------
(* The stdin pattern of the alternate input (main.rs line 78): any text,  *)
(* a colon, one or more digits, a colon and a space, a run of non-spaces,  *)
(* one space, and a run of non-spaces to the end of the line.  Groups: the *)
(* text before the colon, the digits, the last run.                        *)

\* the line matches with group 1 = the first k - 1 characters
MatchAt(l, k) ==
    /\ l[k] = ":"
    \* the dot of the first group matches no line break
    /\ \A i \in 1..(k - 1) : l[i] # "\n"
    /\ LET afterColon == Drop(l, k)
           \* \d+ : the run of digits after the colon
           nd == IF \E i \in 1..Len(afterColon) : afterColon[i] \notin Digits
                 THEN (CHOOSE i \in 1..Len(afterColon) :
                          /\ afterColon[i] \notin Digits
                          /\ \A j \in 1..(i - 1) : afterColon[j] \in Digits) - 1
                 ELSE Len(afterColon)
           rest == Drop(afterColon, nd)
           \* after ": " comes [^ ]*, one space, [^ ]* to the end
           tail == Drop(rest, 2)
           sp == IndexOf(tail, " ")
       IN  /\ nd >= 1
           /\ Len(rest) >= 2
           /\ rest[1] = ":"
           /\ rest[2] = " "
           /\ sp >= 1
           /\ NoSpace(Drop(tail, sp))

\* the third group takes in the discarded token with the link
CapturesTokenKept(l) ==
    LET ks == {k \in 1..Len(l) : MatchAt(l, k)}
    IN  IF ks = {} THEN None
        ELSE LET k == CHOOSE x \in ks : \A y \in ks : y <= x
                 afterColon == Drop(l, k)
                 m == IndexOf(afterColon, ":")
             IN  Some([path |-> SubSeq(l, 1, k - 1),
                       lineno |-> SubSeq(afterColon, 1, m - 1),
                       link |-> Drop(afterColon, m + 1)])

\* Regex::captures: groups 1, 2, 3 of the leftmost-first match (the greedy
\* first group takes the longest prefix that lets the rest match), None
\* without a match
Captures(l) ==
    LET ks == {k \in 1..Len(l) : MatchAt(l, k)}
    IN  IF ks = {} THEN None
        ELSE LET k == CHOOSE x \in ks : \A y \in ks : y <= x
                 afterColon == Drop(l, k)
                 m == IndexOf(afterColon, ":")
                 tail == Drop(afterColon, m + 1)
                 sp == IndexOf(tail, " ")
             IN  Some([path |-> SubSeq(l, 1, k - 1),
                       lineno |-> SubSeq(afterColon, 1, m - 1),
                       link |-> Drop(tail, sp)])

----------------------------------------------------------------------------
(* Link::parse_with_root and split_fragment (module linky) *)

SupportedSchemes == {<<"h", "t", "t", "p">>, <<"h", "t", "t", "p", "s">>}

\* the directory part of a document path, with its trailing separator
ParentDir(path) == SubSeq(path, 1, LastIndexOf(path, "/"))

\* the document root is not used: the link stays as it is
JoinRootIgnored(root, link) == link

\* a root-relative link joined to the document root
JoinRoot(root, link) ==
    IF root # <<>> /\ root[Len(root)] = "/"
    THEN root \o Tail(link)
    ELSE root \o link

\* nothing after the '#' counts as no fragment at all
SplitFragmentEmptyAbsent(raw) ==
    LET h == IndexOf(raw, "#")
    IN  IF h = 0 \/ h = Len(raw)
        THEN [base |-> IF h = 0 THEN raw ELSE SubSeq(raw, 1, h - 1), fragment |-> None]
        ELSE [base |-> SubSeq(raw, 1, h - 1), fragment |-> Some(Drop(raw, h))]

\* split_fragment: the part before the first '#', and the part after it
SplitFragment(raw) ==
    LET h == IndexOf(raw, "#")
    IN  IF h = 0 THEN [base |-> raw, fragment |-> None]
        ELSE [base |-> SubSeq(raw, 1, h - 1), fragment |-> Some(Drop(raw, h))]

\* parse_with_root followed by split_fragment: None on a ParseError
ParseLink(raw, path, root) ==
    LET sf == SplitFragment(raw)
        b == sf.base
        c == IndexOf(b, ":")
    IN  IF c > 0
        THEN IF SubSeq(b, 1, c - 1) \in SupportedSchemes
             THEN Some(sf)
             ELSE None
        ELSE IF b # <<>> /\ b[1] = "/"
             THEN Some([base |-> JoinRoot(root, b), fragment |-> sf.fragment])
             ELSE Some([base |-> ParentDir(path) \o b, fragment |-> sf.fragment])

----------------------------------------------------------------------------
(* Tags and errors (modules linky and errors) *)

FetchFailureTags == {"fetch-failure", "redirect-not-followed"}

FragmentTags == {"fragment-empty", "fragment-not-found"}

Tags == FetchFailureTags \cup FragmentTags

\* Display of a Tag
TagDisplay(tag) ==
    CASE tag = "fetch-failure" ->
           <<"f", "e", "t", "c", "h", "-", "f", "a", "i", "l", "u", "r", "e">>
      [] tag = "redirect-not-followed" ->
           <<"r", "e", "d", "i", "r", "e", "c", "t", "-", "n", "o", "t", "-",
             "f", "o", "l", "l", "o", "w", "e", "d">>
      [] tag = "fragment-empty" ->
           <<"f", "r", "a", "g", "m", "e", "n", "t", "-", "e", "m", "p", "t", "y">>
      [] tag = "fragment-not-found" ->
           <<"f", "r", "a", "g", "m", "e", "n", "t", "-", "n", "o", "t", "-",
             "f", "o", "u", "n", "d">>

\* the one-line message of an error: its kind and what it is about
Msg(kind, about) == <<kind>> \o about

\* LinkError::new(base, cause): an error chain, the top error first
LinkError(base, cause) == <<Msg("LinkError", base)>> \o cause

TargetsOk(ids) == [ok |-> TRUE, ids |-> ids, tag |-> "", err |-> <<>>]

TargetsErr(tag, err) == [ok |-> FALSE, ids |-> <<>>, tag |-> tag, err |-> err]

\* the empty fragment is looked up like any other, and not found
LookupFragmentEmptyNotFound(ids, fragment, prefixes) ==
    LET InIds(f) == \E i \in 1..Len(ids) : ids[i] = f
    IN  IF fragment = None
           \/ InIds(Unwrap(fragment))
           \/ \E p \in 1..Len(prefixes) : InIds(prefixes[p] \o Unwrap(fragment))
        THEN [ok |-> TRUE, tag |-> "", err |-> <<>>]
        ELSE [ok |-> FALSE, tag |-> "fragment-not-found",
              err |-> <<Msg("FragmentNotFound", Unwrap(fragment))>>]

\* lookup_fragment(ids, fragment, prefixes): Ok, or a Tag and an error
LookupFragment(ids, fragment, prefixes) ==
    LET InIds(f) == \E i \in 1..Len(ids) : ids[i] = f
        ok == [ok |-> TRUE, tag |-> "", err |-> <<>>]
    IN  IF fragment = None THEN ok
        ELSE LET f == Unwrap(fragment)
             IN  IF f = <<>>
                 THEN [ok |-> FALSE, tag |-> "fragment-empty",
                       err |-> <<Msg("EmptyFragment", <<>>)>>]
                 ELSE IF InIds(f) THEN ok
                 ELSE IF \E p \in 1..Len(prefixes) : InIds(prefixes[p] \o f) THEN ok
                 ELSE [ok |-> FALSE, tag |-> "fragment-not-found",
                       err |-> <<Msg("FragmentNotFound", f)>>]

----------------------------------------------------------------------------
(* The inputs of a run: options, documents, stdin lines, fetch results *)

\* document paths
Paths == {<<"a">>, <<"d", "/", "a">>}

\* line numbers, as the digits a stdin line carries
LineDigits == {<<"1">>, <<"1", "2">>}

LineNums == {DecimalValue(ds) : ds \in LineDigits}

\* raw link texts: a relative link without fragment, with the empty fragment
\* and with a fragment (its target depends on the document's directory), and
\* a link with a scheme parse_with_root rejects
RawLinks ==
    {<<"b">>, <<"b", "#">>, <<"b", "#", "f">>, <<"m", ":", "x">>}

\* the discarded token of a stdin line
Tokens == {<<>>, <<"x">>}

StdinLine(path, digits, token, link) ==
    path \o <<":">> \o digits \o <<":", " ">> \o token \o <<" ">> \o link

\* where the links of the stdin lines were found: a document and a line
Positions ==
    {[path |-> <<"a">>, digits |-> <<"1">>],
     [path |-> <<"d", "/", "a">>, digits |-> <<"1", "2">>]}

WellFormedLines ==
    {StdinLine(p.path, p.digits, t, l) : p \in Positions, t \in Tokens, l \in RawLinks}

\* lines without the token field, without a line number, with a space in the link
MalformedLines ==
    {<<"a", ":", "1", ":", " ", "b">>,
     <<"a", ":", " ", "x", " ", "b">>,
     <<"a", ":", "1", ":", " ", "x", " ", "b", " ", "c">>}

StdinLines == WellFormedLines \cup MalformedLines

MuteSets == {{}, {"fragment-empty"}, {"fetch-failure"}}

PrefixLists == {<<>>, << <<"p">> >>}

Roots == {<<"/">>}

\* the positional arguments: no document (stdin mode), or some of the
\* documents, each once, in any order
FileLists ==
    UNION {{fl \in [1..n -> Paths] : \A i, j \in 1..n : fl[i] = fl[j] => i = j} :
             n \in 0..Cardinality(Paths)}

\* struct Opt, without --follow (it only configures the HTTP client)
Opts ==
    [check : BOOLEAN, silence : MuteSets, prefixes : PrefixLists,
     root : Roots, file : FileLists]

\* the anchor ids a retrieved target can have: the id of fragment f as it
\* is, or under the prefix p
IdLists == {<< <<"f">> >>, << <<"p", "f">> >>}

\* what client.fetch_targets(base) can return: the ids of the target, or a
\* Tag with the chain of errors behind it
FetchResults(base) ==
    {TargetsOk(ids) : ids \in IdLists}
      \cup {TargetsErr("fetch-failure",
                       LinkError(base, <<Msg("TransportError", <<>>),
                                         Msg("OsError", <<>>)>>))}

\* what md_file_links can push for one document: (line, link) pairs in
\* ascending line order, at most n of them
RECURSIVE FileScans(_)
FileScans(n) ==
    IF n = 0 THEN {<<>>}
    ELSE LET shorter == FileScans(n - 1)
         IN  shorter \cup
             {Append(sc, [linenum |-> ln, link |-> l]) :
                sc \in {x \in shorter : Len(x) = n - 1}, ln \in LineNums, l \in RawLinks}

Ascending(sc) == \A i \in 1..(Len(sc) - 1) : sc[i].linenum <= sc[i + 1].linenum

----------------------------------------------------------------------------
(* The steps of main *)

EmptyMap == [b \in {} |-> TargetsOk(<<>>)]

\* main returns normally: exit status 0
ExitSuccess == 0

\* a panic (unwrap on None or Err) ends the process with status 101
ExitPanic == 101

\* a client is built whether or not --check is given
ClientAlways(o) == Some("client")

\* lines 65-73: a client exists only with --check
Client(o) == IF o.check THEN Some("client") ELSE None

\* lines 87-91: links.push
PushLink(ls, triple) == Append(ls, triple)

\* a cache that never answers: every link is fetched anew
NeverOccupied(cache, base) == FALSE

\* a cache that keeps successes only: a failed target is fetched again
OccupiedOnSuccess(cache, base) == base \in DOMAIN cache /\ cache[base].ok

\* lines 127-129: all_targets.entry(base) is occupied
EntryOccupied(cache, base) == base \in DOMAIN cache

\* the map holds the latest Targets only
InsertAlone(cache, base, targets) == (base :> targets)

\* line 129: or_insert_with puts the Targets under the vacant key
Insert(cache, base, targets) == (base :> targets) @@ cache

\* the fragment is looked up first, and its error wins over a fetch failure
TagAndErrFragmentFirst(targets, base, fragment, prefixes) ==
    LET r == LookupFragment(targets.ids, fragment, prefixes)
    IN  [res |-> IF ~r.ok THEN Some([tag |-> r.tag, err |-> LinkError(base, r.err)])
                 ELSE IF ~targets.ok
                      THEN Some([tag |-> targets.tag, err |-> targets.err])
                      ELSE None,
         looked |-> TRUE]

\* lines 130-135: the Tag and error of a link from its Targets: a fetch
\* failure as it is, else the outcome of lookup_fragment; looked tells
\* whether lookup_fragment ran
TagAndErr(targets, base, fragment, prefixes) ==
    IF ~targets.ok
    THEN [res |-> Some([tag |-> targets.tag, err |-> targets.err]), looked |-> FALSE]
    ELSE LET r == LookupFragment(targets.ids, fragment, prefixes)
         IN  [res |-> IF r.ok THEN None
                      ELSE Some([tag |-> r.tag, err |-> LinkError(base, r.err)]),
              looked |-> TRUE]

\* line 141: the Tag of the Record
RecordTag(tag_and_err) ==
    IF IsSome(tag_and_err) THEN Some(Unwrap(tag_and_err).tag) ELSE None

\* map_or(true, ..): a Record without a Tag counts as muted
SilencedUntagged(tag, silence) == ~IsSome(tag) \/ Unwrap(tag) \in silence

\* line 145: the Record's Tag is in the mute set
IsSilenced(tag, silence) == IsSome(tag) /\ Unwrap(tag) \in silence

\* a Record without a Tag is printed without the tag field and its space
FormatLineTagFieldOmitted(path, linenum, tag, link) ==
    path \o <<":">> \o ToDecimal(linenum) \o <<":", " ">>
         \o (IF IsSome(tag) THEN TagDisplay(Unwrap(tag)) \o <<" ">> ELSE <<>>)
         \o link

\* lines 154-162: the report line
FormatLine(path, linenum, tag, link) ==
    path \o <<":">> \o ToDecimal(linenum) \o <<":", " ">>
         \o (IF IsSome(tag) THEN TagDisplay(Unwrap(tag)) ELSE <<>>)
         \o <<" ">> \o link

Event(stream, i, kind, text) ==
    [stream |-> stream, link |-> i, kind |-> kind, text |-> text]

\* only the error itself is logged, its causes are not walked
CauseChainTopOnly(tag_and_err, i) ==
    IF IsSome(tag_and_err)
    THEN <<Event("stderr", i, "error:", Unwrap(tag_and_err).err[1])>>
    ELSE <<>>

\* lines 146-153: the error and each of its causes, in chain order
CauseChain(tag_and_err, i) ==
    IF IsSome(tag_and_err)
    THEN LET err == Unwrap(tag_and_err).err
         IN  [k \in 1..Len(err) |->
                 Event("stderr", i, IF k = 1 THEN "error:" ELSE "caused by:", err[k])]
    ELSE <<>>

\* the new lines come out before the earlier ones
EmitFront(out, events) == events \o out

\* one more line on a stream
Emit(out, events) == out \o events

\* the cause chain is logged before the mute set is consulted
ReportDiagnosticsAlways(out, rec, tag_and_err, silence) ==
    LET logged == Emit(out, CauseChain(tag_and_err, rec.idx))
    IN  IF IsSilenced(rec.tag, silence) THEN logged
        ELSE Emit(logged, <<Event("stdout", rec.idx, "report",
                                  FormatLine(rec.path, rec.linenum, rec.tag, rec.link))>>)

\* a muted Tag is left out of the line, the line is printed
ReportMutedUntagged(out, rec, tag_and_err, silence) ==
    IF IsSilenced(rec.tag, silence)
    THEN Emit(out, <<Event("stdout", rec.idx, "report",
                           FormatLine(rec.path, rec.linenum, None, rec.link))>>)
    ELSE Emit(out, CauseChain(tag_and_err, rec.idx)
                     \o <<Event("stdout", rec.idx, "report",
                                FormatLine(rec.path, rec.linenum, rec.tag, rec.link))>>)

\* lines 145-163: what the loop prints for one Record
Report(out, rec, tag_and_err, silence) ==
    IF IsSilenced(rec.tag, silence) THEN out
    ELSE Emit(out, CauseChain(tag_and_err, rec.idx)
                     \o <<Event("stdout", rec.idx, "report",
                                FormatLine(rec.path, rec.linenum, rec.tag, rec.link))>>)

\* an exit status that tells whether a Record had a Tag that is not muted
ExitCodeOnErrors(recs, silence) ==
    IF \E k \in 1..Len(recs) : IsSome(recs[k].tag) /\ ~IsSilenced(recs[k].tag, silence)
    THEN 1 ELSE ExitSuccess

\* the exit status of a run that reaches the end of main
ExitCode(recs, silence) == ExitSuccess

StdinMode == opt.file = <<>>

\* the same run with an empty mute set, before its loop: its cache, its
\* retrievals, its Records and what its loop printed
UnmutedStart ==
    [all_targets |-> EmptyMap, fetches |-> <<>>, records |-> <<>>, output |-> <<>>]

Init ==
    /\ arg = None
    /\ ret = None
    /\ opt \in Opts
    /\ pc = "read"
    /\ fileIdx = 0
    /\ line = None
    /\ links = <<>>
    /\ idx = 0
    /\ all_targets = EmptyMap
    /\ fetches = <<>>
    /\ lookups = <<>>
    /\ records = <<>>
    /\ output = <<>>
    /\ exitStatus = None
    /\ unmuted = UnmutedStart

\* lines 80-91: one stdin line that matches the pattern becomes a triple
ReadStdinLine ==
    /\ pc = "read" /\ StdinMode
    /\ Len(links) < MaxLinks
    /\ \E l \in StdinLines :
         LET cap == Captures(l)
         IN  /\ IsSome(cap)
             /\ IsSome(ParseUsize(Unwrap(cap).lineno))
             /\ line' = Some(l)
             /\ links' = PushLink(links, [path |-> Unwrap(cap).path,
                                          linenum |-> Unwrap(ParseUsize(Unwrap(cap).lineno)),
                                          link |-> Unwrap(cap).link])
    /\ UNCHANGED <<unmuted, arg, ret, opt, pc, fileIdx, idx, all_targets, fetches, lookups,
                   records, output, exitStatus>>

\* a line without a match is skipped and reading goes on
StdinSkip ==
    /\ pc = "read" /\ StdinMode
    /\ \E l \in StdinLines :
         /\ ~IsSome(Captures(l))
         /\ line' = Some(l)
    /\ UNCHANGED <<unmuted, arg, ret, opt, pc, fileIdx, links, idx, all_targets, fetches, lookups,
                   records, output, exitStatus>>

\* lines 82, 89: unwrap panics on a line without a match, or on a line
\* number that does not fit a usize
StdinPanic ==
    /\ pc = "read" /\ StdinMode
    /\ \E l \in StdinLines :
         /\ \/ ~IsSome(Captures(l))
            \/ /\ IsSome(Captures(l))
               /\ ~IsSome(ParseUsize(Unwrap(Captures(l)).lineno))
         /\ line' = Some(l)
    /\ pc' = "panic"
    /\ exitStatus' = Some(ExitPanic)
    /\ UNCHANGED <<unmuted, arg, ret, opt, fileIdx, links, idx, all_targets, fetches, lookups,
                   records, output>>

\* line 80: the end of stdin ends the loop, and with it the scope of line
StdinEof ==
    /\ pc = "read" /\ StdinMode
    /\ pc' = "process"
    /\ line' = None
    /\ UNCHANGED <<unmuted, arg, ret, opt, fileIdx, links, idx, all_targets, fetches,
                   lookups, records, output, exitStatus>>

\* lines 94-95: md_file_links pushes the links of the next document
ReadFile ==
    /\ pc = "read" /\ ~StdinMode
    /\ fileIdx < Len(opt.file)
    /\ \E sc \in FileScans(MaxLinks - Len(links)) :
         /\ Ascending(sc)
         /\ links' = links \o [k \in 1..Len(sc) |->
                                 [path |-> opt.file[fileIdx + 1],
                                  linenum |-> sc[k].linenum, link |-> sc[k].link]]
    /\ fileIdx' = fileIdx + 1
    /\ UNCHANGED <<unmuted, arg, ret, opt, pc, line, idx, all_targets, fetches, lookups,
                   records, output, exitStatus>>

\* a document that cannot be read ends the run
ReadFileErrorAbort ==
    /\ pc = "read" /\ ~StdinMode
    /\ fileIdx < Len(opt.file)
    /\ output' = Emit(output, <<Event("stderr", 0, "reading file",
                                      opt.file[fileIdx + 1])>>)
    /\ pc' = "panic"
    /\ exitStatus' = Some(ExitPanic)
    /\ UNCHANGED <<unmuted, arg, ret, opt, fileIdx, line, links, idx, all_targets, fetches, lookups,
                   records>>

\* lines 95-97: a document that cannot be read is logged and skipped
ReadFileError ==
    /\ pc = "read" /\ ~StdinMode
    /\ fileIdx < Len(opt.file)
    /\ output' = Emit(output, <<Event("stderr", 0, "reading file",
                                      opt.file[fileIdx + 1])>>)
    /\ fileIdx' = fileIdx + 1
    /\ UNCHANGED <<unmuted, arg, ret, opt, pc, line, links, idx, all_targets, fetches, lookups,
                   records, exitStatus>>

\* line 94: after the last document the loop ends
FilesDone ==
    /\ pc = "read" /\ ~StdinMode
    /\ fileIdx = Len(opt.file)
    /\ pc' = "process"
    /\ UNCHANGED <<unmuted, arg, ret, opt, fileIdx, line, links, idx, all_targets, fetches,
                   lookups, records, output, exitStatus>>

Current == links[idx + 1]

Parsed == ParseLink(Current.link, Current.path, opt.root)

\* line 138: the Record of the current link
NewRecord(tag_and_err) ==
    [idx |-> idx + 1, path |-> Current.path, linenum |-> Current.linenum,
     link |-> Current.link, base |-> Unwrap(Parsed).base,
     fragment |-> Unwrap(Parsed).fragment, tag |-> RecordTag(tag_and_err)]

\* a link that does not parse ends the run
DropLinkAbort ==
    /\ pc = "process" /\ idx < Len(links)
    /\ ~IsSome(Parsed)
    /\ output' = Emit(output, <<Event("stderr", idx + 1, "parse error", Current.link)>>)
    /\ pc' = "panic"
    /\ exitStatus' = Some(ExitPanic)
    /\ UNCHANGED <<unmuted, arg, ret, opt, fileIdx, line, links, idx, all_targets, fetches,
                   lookups, records>>

\* lines 107-110: a link that does not parse is logged and dropped
DropLink ==
    /\ pc = "process" /\ idx < Len(links)
    /\ ~IsSome(Parsed)
    /\ output' = Emit(output,
                      <<Event("stderr", idx + 1, "parse error",
                              Current.path \o <<":">> \o ToDecimal(Current.linenum)
                                \o <<":", " ", "ParseError", ":", " ">> \o Current.link)>>)
    /\ idx' = idx + 1
    /\ UNCHANGED <<unmuted, arg, ret, opt, pc, fileIdx, line, links, all_targets, fetches,
                   lookups, records, exitStatus>>

\* lines 123-163 without a client, in the run with the empty mute set
UnmutedExtract(run) ==
    LET rec == NewRecord(None)
    IN  [run EXCEPT !.records = Append(@, rec),
                    !.output = Report(@, rec, None, {})]

\* lines 130-163 in the run with the empty mute set
UnmutedClassify(run, targets) ==
    LET tae == TagAndErr(targets, Unwrap(Parsed).base, Unwrap(Parsed).fragment,
                         opt.prefixes)
        rec == NewRecord(tae.res)
    IN  [run EXCEPT !.records = Append(@, rec),
                    !.output = Report(@, rec, tae.res, {})]

\* lines 123-163 with a client, in the run with the empty mute set: t is
\* what fetch_targets answers when that run calls it
UnmutedCheck(run, t) ==
    LET base == Unwrap(Parsed).base
    IN  IF EntryOccupied(run.all_targets, base)
        THEN UnmutedClassify(run, run.all_targets[base])
        ELSE UnmutedClassify(
                 [run EXCEPT !.all_targets = Insert(@, base, t),
                             !.fetches = Append(@, [link |-> idx + 1, base |-> base,
                                                    result |-> t])],
                 t)

\* lines 123-163 without a client: no Tag, the link is reported as it is
ExtractLink ==
    /\ pc = "process" /\ idx < Len(links)
    /\ IsSome(Parsed)
    /\ ~IsSome(Client(opt))
    /\ LET rec == NewRecord(None)
       IN  /\ records' = Append(records, rec)
           /\ output' = Report(output, rec, None, opt.silence)
    /\ unmuted' = UnmutedExtract(unmuted)
    /\ idx' = idx + 1
    /\ UNCHANGED <<arg, ret, opt, pc, fileIdx, line, links, all_targets, fetches,
                   lookups, exitStatus>>

\* what follows the cache access: classify, record, report
Classify(targets) ==
    LET tae == TagAndErr(targets, Unwrap(Parsed).base, Unwrap(Parsed).fragment,
                         opt.prefixes)
        rec == NewRecord(tae.res)
    IN  /\ lookups' = IF tae.looked THEN Append(lookups, idx + 1) ELSE lookups
        /\ records' = Append(records, rec)
        /\ output' = Report(output, rec, tae.res, opt.silence)

\* lines 127-129 on a vacant entry: fetch_targets runs and its result is kept
CheckFetch ==
    /\ pc = "process" /\ idx < Len(links)
    /\ IsSome(Parsed)
    /\ IsSome(Client(opt))
    /\ ~EntryOccupied(all_targets, Unwrap(Parsed).base)
    /\ \E t \in FetchResults(Unwrap(Parsed).base) :
         /\ all_targets' = Insert(all_targets, Unwrap(Parsed).base, t)
         /\ fetches' = Append(fetches, [link |-> idx + 1,
                                        base |-> Unwrap(Parsed).base, result |-> t])
         /\ Classify(t)
         /\ unmuted' = UnmutedCheck(unmuted, t)
    /\ idx' = idx + 1
    /\ UNCHANGED <<arg, ret, opt, pc, fileIdx, line, links, exitStatus>>

\* lines 127-129 on an occupied entry: the memoized Targets are used
CheckCached ==
    /\ pc = "process" /\ idx < Len(links)
    /\ IsSome(Parsed)
    /\ IsSome(Client(opt))
    /\ EntryOccupied(all_targets, Unwrap(Parsed).base)
    /\ Classify(all_targets[Unwrap(Parsed).base])
    /\ \E t \in FetchResults(Unwrap(Parsed).base) : unmuted' = UnmutedCheck(unmuted, t)
    /\ idx' = idx + 1
    /\ UNCHANGED <<arg, ret, opt, pc, fileIdx, line, links, all_targets, fetches, exitStatus>>

\* line 165: the loop is over and main returns
Finish ==
    /\ pc = "process" /\ idx = Len(links)
    /\ pc' = "done"
    /\ exitStatus' = Some(ExitCode(records, opt.silence))
    /\ UNCHANGED <<unmuted, arg, ret, opt, fileIdx, line, links, idx, all_targets, fetches,
                   lookups, records, output>>

Next ==
    \/ ReadStdinLine
    \/ StdinPanic
    \/ StdinEof
    \/ ReadFile
    \/ ReadFileError
    \/ FilesDone
    \/ DropLink
    \/ ExtractLink
    \/ CheckFetch
    \/ CheckCached
    \/ Finish

Spec == Init /\ [][Next]_vars

----------------------------------------------------------------------------
(* What the claims speak about *)

Stdout == SelectSeq(output, LAMBDA e : e.stream = "stdout")

Stderr == SelectSeq(output, LAMBDA e : e.stream = "stderr")

RecordSet == {records[k] : k \in 1..Len(records)}

FetchSet == {fetches[k] : k \in 1..Len(fetches)}

\* the events printed for input link i
EventsOf(i) == {k \in 1..Len(output) : output[k].link = i}

ReportsOf(i) == {k \in EventsOf(i) : output[k].stream = "stdout"}

ParsesOk(i) == IsSome(ParseLink(links[i].link, links[i].path, opt.root))

\* the text <path>:<line>: <tag> <raw-link> for input link i
LineOf(i, tagText) ==
    links[i].path \o <<":">> \o ToDecimal(links[i].linenum) \o <<":", " ">>
        \o tagText \o <<" ">> \o links[i].link

Muted(r) == r.tag # None /\ r.tag[1] \in opt.silence

----------------------------------------------------------------------------
(* C1 *)

\* C1: in check mode the retrieval runs at most once per distinct base,
\* whatever the number of links and their fragments: no two retrievals have
\* the same base, the memoized Targets of a base are the result of its one
\* retrieval, and every link is classified from them.
C1_FetchAtMostOncePerBase ==
    /\ \A i, j \in 1..Len(fetches) : fetches[i].base = fetches[j].base => i = j
    /\ \A f \in FetchSet :
          f.base \in DOMAIN all_targets /\ all_targets[f.base] = f.result
    /\ \A r \in RecordSet :
          opt.check =>
            /\ \E f \in FetchSet : f.base = r.base /\ f.link <= r.idx
            /\ r.tag = RecordTag(TagAndErr(all_targets[r.base], r.base, r.fragment,
                                           opt.prefixes).res)

\* two links with the same base and different fragments were checked, the
\* later one from the memoized result
C1_Witness ==
    \E r1, r2 \in RecordSet :
        /\ opt.check
        /\ r1.idx < r2.idx
        /\ r1.base = r2.base
        /\ r1.fragment # r2.fragment
        /\ \E f \in FetchSet : f.link = r1.idx

----------------------------------------------------------------------------
(* C2 *)

\* C2: a failed retrieval is memoized like a successful one: after
\* fetch_targets returned a failure for a base, no later retrieval has that
\* base and the cache still holds that failure.
C2_FailureMemoized ==
    \A i \in 1..Len(fetches) :
        ~fetches[i].result.ok =>
            /\ \A j \in (i + 1)..Len(fetches) : fetches[j].base # fetches[i].base
            /\ fetches[i].base \in DOMAIN all_targets
            /\ all_targets[fetches[i].base] = fetches[i].result

\* a later link had the base of a failed retrieval
C2_Witness ==
    \E f \in FetchSet, r \in RecordSet :
        /\ ~f.result.ok
        /\ r.base = f.base
        /\ r.idx > f.link

----------------------------------------------------------------------------
(* C3 *)

\* C3: when the fetch of a base failed, every link with that base, whatever
\* its fragment, has the Tag of the cached failure, never a fragment Tag, and
\* lookup_fragment did not run for it.
C3_FetchFailureMasksFragment ==
    \A r \in RecordSet :
        (opt.check /\ r.base \in DOMAIN all_targets /\ ~all_targets[r.base].ok) =>
            /\ r.tag = Some(all_targets[r.base].tag)
            /\ r.tag[1] \notin FragmentTags
            /\ \A k \in 1..Len(lookups) : lookups[k] # r.idx

\* two links to a base whose fetch failed, one of them with the empty fragment
C3_Witness ==
    \E r1, r2 \in RecordSet :
        /\ opt.check
        /\ r1.idx # r2.idx
        /\ r1.base = r2.base
        /\ ~all_targets[r1.base].ok
        /\ r1.fragment = Some(<<>>)
        /\ r2.fragment # r1.fragment

----------------------------------------------------------------------------
(* C4 *)

\* the place of a document among the positional arguments
FilePos(path) == CHOOSE n \in 1..Len(opt.file) : opt.file[n] = path

\* C4: the report lines come in the order of the input links: the links keep
\* the order of their sources (documents in the order given, each document's
\* links in the order md_file_links gave them, a stdin line's triple last),
\* and of two report lines the one of the earlier link is printed first, each
\* line being the line of its own link.
C4_ReportInInputOrder ==
    /\ \A m, n \in 1..Len(Stdout) : m < n => Stdout[m].link < Stdout[n].link
    /\ \A m \in 1..Len(Stdout) :
          /\ Stdout[m].link \in 1..idx
          /\ \E tagText \in {<<>>} \cup {TagDisplay(t) : t \in Tags} :
                Stdout[m].text = LineOf(Stdout[m].link, tagText)
    /\ ~StdinMode =>
          \A i, j \in 1..Len(links) :
              i < j => /\ FilePos(links[i].path) <= FilePos(links[j].path)
                       /\ FilePos(links[i].path) <= fileIdx
                       /\ links[i].path = links[j].path =>
                             links[i].linenum <= links[j].linenum
    /\ (StdinMode /\ pc = "read" /\ IsSome(line) /\ line[1] \in WellFormedLines) =>
          \E p \in Positions, t \in Tokens, l \in RawLinks :
              /\ line[1] = StdinLine(p.path, p.digits, t, l)
              /\ links # <<>>
              /\ links[Len(links)] =
                   [path |-> p.path, linenum |-> DecimalValue(p.digits), link |-> l]

\* two report lines, the first for a link whose base was fetched, the second
\* for a link answered from the cache
C4_Witness ==
    /\ opt.check
    /\ Len(Stdout) >= 2
    /\ \E f \in FetchSet : f.link = Stdout[1].link
    /\ \A f \in FetchSet : f.link # Stdout[2].link

----------------------------------------------------------------------------
(* C5 *)

\* C5: a link whose Tag is in the mute set prints nothing, neither a report
\* line nor an error or cause line; a link whose Tag is not in the mute set
\* prints exactly one report line, with the Tag's display name in it.
C5_MutedPrintsNothing ==
    \A r \in RecordSet :
        /\ Muted(r) => EventsOf(r.idx) = {}
        /\ (r.tag # None /\ r.tag[1] \notin opt.silence) =>
              /\ Cardinality(ReportsOf(r.idx)) = 1
              /\ \A k \in ReportsOf(r.idx) :
                    output[k].text = LineOf(r.idx, TagDisplay(r.tag[1]))

\* one link was muted and another has a Tag that is not muted
C5_Witness ==
    \E r1, r2 \in RecordSet :
        /\ Muted(r1)
        /\ r2.tag # None
        /\ ~Muted(r2)
        /\ ReportsOf(r2.idx) # {}

----------------------------------------------------------------------------
(* C6 *)

\* the links that parse and whose Record has no Tag or a Tag not muted
Reportable ==
    {i \in 1..Len(links) :
        /\ ParsesOk(i)
        /\ \E r \in RecordSet : r.idx = i /\ ~Muted(r)}

\* C6: when the run completes there are as many report lines as links that
\* parsed and have no Tag or a Tag that is not muted; each such link has
\* exactly one line <path>:<line>: <tag-or-empty> <raw-link> with its own
\* path, line number and raw link text.
C6_OneLinePerReportableLink ==
    pc = "done" =>
        /\ \A i \in 1..Len(links) : ParsesOk(i) => \E r \in RecordSet : r.idx = i
        /\ Len(Stdout) = Cardinality(Reportable)
        /\ \A i \in Reportable :
              /\ Cardinality(ReportsOf(i)) = 1
              /\ \A k \in ReportsOf(i), r \in RecordSet :
                    r.idx = i =>
                      output[k].text =
                        LineOf(i, IF r.tag = None THEN <<>> ELSE TagDisplay(r.tag[1]))

\* a completed run with a report line and with a link that has none
C6_Witness ==
    /\ pc = "done"
    /\ Len(Stdout) >= 1
    /\ Len(Stdout) < Len(links)

----------------------------------------------------------------------------
(* C7 *)

\* C7: without --check nothing is retrieved, the cache stays empty, and every
\* link that parses is reported with the empty tag field, whatever its
\* fragment and the mute set.
C7_ExtractOnly ==
    ~opt.check =>
        /\ fetches = <<>>
        /\ DOMAIN all_targets = {}
        /\ lookups = <<>>
        /\ \A i \in 1..idx :
              ParsesOk(i) =>
                /\ \E r \in RecordSet : r.idx = i /\ r.tag = None
                /\ Cardinality(ReportsOf(i)) = 1
                /\ \A k \in ReportsOf(i) : output[k].text = LineOf(i, <<>>)

\* an extract-only run with a mute set reported a link with the empty fragment
C7_Witness ==
    /\ ~opt.check
    /\ opt.silence # {}
    /\ \E r \in RecordSet : r.fragment = Some(<<>>) /\ ReportsOf(r.idx) # {}

----------------------------------------------------------------------------
(* C8 *)

\* C8: a link that fails parse_with_root is logged and dropped: the step
\* prints one diagnostic line and no report line, retrieves nothing, leaves
\* the cache and the Records as they are and goes on to the next link; the
\* run ends only after every link had its turn, each parsed one with a Record.
C8_ParseFailureDropped ==
    [][ /\ (pc = "process" /\ idx < Len(links) /\ ~ParsesOk(idx + 1)) =>
            /\ pc' = "process"
            /\ idx' = idx + 1
            /\ links' = links
            /\ all_targets' = all_targets
            /\ fetches' = fetches
            /\ lookups' = lookups
            /\ records' = records
            /\ Stdout' = Stdout
            /\ Len(output') = Len(output) + 1
            /\ SubSeq(output', 1, Len(output)) = output
            /\ output'[Len(output')].stream = "stderr"
            /\ output'[Len(output')].link = idx + 1
        /\ (pc = "process" /\ pc' # "process") =>
            /\ pc' = "done"
            /\ idx = Len(links)
            /\ \A i \in 1..Len(links) : ParsesOk(i) => \E r \in RecordSet : r.idx = i
      ]_vars

\* a link was dropped and a later link got its report line
C8_Witness ==
    \E k \in 1..Len(output), r \in RecordSet :
        /\ output[k].kind = "parse error"
        /\ r.idx > output[k].link
        /\ ReportsOf(r.idx) # {}

----------------------------------------------------------------------------
(* C9 *)

UnmutedError == \E r \in RecordSet : r.tag # None /\ ~Muted(r)

\* C9 as claimed: a run with an unmuted error Tag ends with another exit
\* status than a run without one (which ends with status 0).
C9_ExitStatusReflectsErrors ==
    (pc = "done" /\ UnmutedError) => exitStatus # Some(ExitSuccess)

\* C9 as amended: the exit status tells nothing about unmuted errors: every
\* run that reaches the end of main exits with status 0, with or without an
\* unmuted error Tag; the only other status is that of the panic on a
\* malformed stdin line.
C9_ExitStatusOfCompletedRun ==
    /\ pc = "done" => exitStatus = Some(ExitSuccess)
    /\ pc = "panic" => exitStatus = Some(ExitPanic) /\ StdinMode /\ ~UnmutedError
    /\ pc \in {"read", "process"} => exitStatus = None

\* a completed run with an unmuted error Tag and exit status 0
C9_Witness ==
    /\ pc = "done"
    /\ UnmutedError
    /\ exitStatus = Some(ExitSuccess)

----------------------------------------------------------------------------
(* C10 *)

\* C10: in stdin mode one line that does not match the pattern is fatal: the
\* run is aborted at that line, and an aborted run has printed no report
\* line and retrieved nothing, also for the well-formed lines before it.
C10_MalformedLineFatal ==
    /\ (StdinMode /\ IsSome(line) /\ line[1] \in MalformedLines) =>
          /\ pc = "panic"
          /\ exitStatus = Some(ExitPanic)
    /\ pc = "panic" =>
          /\ Stdout = <<>>
          /\ fetches = <<>>
          /\ DOMAIN all_targets = {}
          /\ records = <<>>
          /\ idx = 0

\* the run was aborted after well-formed lines had been read
C10_Witness ==
    /\ pc = "panic"
    /\ line[1] \in MalformedLines
    /\ Len(links) >= 1

----------------------------------------------------------------------------
(* C11 *)

\* the documents whose reading was logged as failed
FailedDocs == {output[k].text : k \in {n \in 1..Len(output) : output[n].kind = "reading file"}}

\* C11: a document that cannot be read is logged, for that document only,
\* and the run goes on: the step adds one diagnostic line naming the
\* document, keeps the links collected so far and moves to the next
\* document; a document that can be read adds its links, in their order,
\* after those collected before; reading ends only after the last document,
\* and the run ends only after every collected link had its turn.
C11_ReadErrorSkipsDocument ==
    [][ /\ (pc = "read" /\ ~StdinMode /\ fileIdx' # fileIdx) =>
            /\ pc' = "read"
            /\ fileIdx' = fileIdx + 1
            /\ exitStatus' = None
            /\ Len(links') >= Len(links)
            /\ SubSeq(links', 1, Len(links)) = links
            /\ \A k \in (Len(links) + 1)..Len(links') :
                  links'[k].path = opt.file[fileIdx + 1]
            /\ \/ output' = output
               \/ /\ links' = links
                  /\ Len(output') = Len(output) + 1
                  /\ SubSeq(output', 1, Len(output)) = output
                  /\ output'[Len(output')].stream = "stderr"
                  /\ output'[Len(output')].kind = "reading file"
                  /\ output'[Len(output')].text = opt.file[fileIdx + 1]
        /\ (pc = "read" /\ ~StdinMode /\ pc' # "read") =>
            /\ pc' = "process"
            /\ fileIdx = Len(opt.file)
            /\ links' = links
        /\ (pc = "process" /\ ~StdinMode) =>
            /\ links' = links
            /\ pc' # "process" => pc' = "done" /\ idx = Len(links)
      ]_vars

\* the first document could not be read, and a link of the second one has
\* its report line
C11_Witness ==
    /\ Len(opt.file) = 2
    /\ opt.file[1] \in FailedDocs
    /\ \E r \in RecordSet :
          /\ r.path = opt.file[2]
          /\ ReportsOf(r.idx) # {}

\* a link of the first document has its report line though the second
\* document could not be read
C11_WitnessAfter ==
    /\ Len(opt.file) = 2
    /\ opt.file[2] \in FailedDocs
    /\ \E r \in RecordSet :
          /\ r.path = opt.file[1]
          /\ ReportsOf(r.idx) # {}

----------------------------------------------------------------------------
(* Functions of the program called on their own: the state of main is idle, *)
(* arg holds the arguments and ret the result                              *)

IdleOpt ==
    [check |-> FALSE, silence |-> {}, prefixes |-> <<>>, root |-> <<"/">>,
     file |-> <<>>]

\* before the call of a function with one of the given arguments
InitCall(args) ==
    /\ arg \in args
    /\ ret = None
    /\ pc = "call"
    /\ opt = IdleOpt
    /\ fileIdx = 0
    /\ line = None
    /\ links = <<>>
    /\ idx = 0
    /\ all_targets = EmptyMap
    /\ fetches = <<>>
    /\ lookups = <<>>
    /\ records = <<>>
    /\ output = <<>>
    /\ exitStatus = None
    /\ unmuted = UnmutedStart

\* the call returns the given result
Return(result) ==
    /\ pc = "call"
    /\ ret' = Some(result)
    /\ pc' = "return"
    /\ UNCHANGED <<unmuted, arg, opt, fileIdx, line, links, idx, all_targets, fetches,
                   lookups, records, output, exitStatus>>

----------------------------------------------------------------------------
(* C12 *)

StrIntro == <<"i", "n", "t", "r", "o">>

StrSetup == <<"s", "e", "t", "u", "p">>

StrMissing == <<"m", "i", "s", "s", "i", "n", "g">>

StrUserContent == <<"u", "s", "e", "r", "-", "c", "o", "n", "t", "e", "n", "t", "-">>

StrOther == <<"x", "-">>

LookupIdLists ==
    {<<>>, <<StrIntro, StrUserContent \o StrSetup>>, <<StrSetup>>,
     <<StrOther \o StrSetup, StrIntro>>}

LookupFragments ==
    {None, Some(<<>>), Some(StrSetup), Some(StrIntro), Some(StrMissing),
     Some(StrUserContent \o StrSetup)}

LookupPrefixLists ==
    {<<>>, <<StrUserContent>>, <<StrOther, StrUserContent>>}

LookupArgs ==
    [ids : LookupIdLists, fragment : LookupFragments, prefixes : LookupPrefixLists]

InitLookup == InitCall(LookupArgs)

\* main.rs line 133: lookup_fragment(ids.as_slice(), &fragment, prefixes)
CallLookupFragment == Return(LookupFragment(arg.ids, arg.fragment, arg.prefixes))

SpecLookup == InitLookup /\ [][CallLookupFragment]_vars

\* C12: lookup_fragment is OK without fragment; gives fragment-empty, not
\* fragment-not-found, for the empty fragment; is OK when the fragment is
\* among the ids as it is, or with one of the configured prefixes before it;
\* and gives fragment-not-found in every other case.
C12_LookupFragment ==
    pc = "return" =>
        LET r == ret[1]
            f == arg.fragment
            Has(x) == \E i \in 1..Len(arg.ids) : arg.ids[i] = x
        IN  /\ f = None => r.ok
            /\ f = Some(<<>>) => ~r.ok /\ r.tag = "fragment-empty"
            /\ (f # None /\ f # Some(<<>>)) =>
                  /\ r.ok <=> \/ Has(f[1])
                              \/ \E p \in 1..Len(arg.prefixes) :
                                    Has(arg.prefixes[p] \o f[1])
                  /\ ~r.ok => r.tag = "fragment-not-found"
            /\ (arg.ids = <<StrIntro, StrUserContent \o StrSetup>>
                  /\ arg.prefixes = <<StrUserContent>>) =>
                  /\ f = Some(StrSetup) => r.ok
                  /\ f = Some(StrIntro) => r.ok
                  /\ f = Some(StrMissing) => ~r.ok /\ r.tag = "fragment-not-found"

\* the fragment setup was found under the prefix user-content-, and only so
C12_Witness ==
    /\ pc = "return"
    /\ arg.ids = <<StrIntro, StrUserContent \o StrSetup>>
    /\ arg.prefixes = <<StrOther, StrUserContent>>
    /\ arg.fragment = Some(StrSetup)
    /\ ret[1].ok

----------------------------------------------------------------------------
(* C13 *)

\* the error chain behind the Tag of a Record: the cached chain of a fetch
\* failure, or the LinkError of the base around the error of lookup_fragment
ChainOf(r) ==
    IF ~all_targets[r.base].ok THEN all_targets[r.base].err
    ELSE <<Msg("LinkError", r.base),
           IF r.tag = Some("fragment-empty") THEN Msg("EmptyFragment", <<>>)
           ELSE Msg("FragmentNotFound", r.fragment[1])>>

\* everything printed for input link i, in the order printed
PrintedFor(i) == SelectSeq(output, LAMBDA e : e.link = i)

\* C13: for a link with a Tag that is not muted, the whole cause chain is
\* logged before the report line: first the error, then every cause in
\* chain order to the end of the chain, and the report line last.
C13_CauseChainBeforeReport ==
    \A r \in RecordSet :
        (r.tag # None /\ ~Muted(r)) =>
            LET evs == PrintedFor(r.idx)
                chain == ChainOf(r)
            IN  /\ Len(chain) >= 2
                /\ Len(evs) = Len(chain) + 1
                /\ \A k \in 1..Len(chain) :
                      /\ evs[k].stream = "stderr"
                      /\ evs[k].kind = (IF k = 1 THEN "error:" ELSE "caused by:")
                      /\ evs[k].text = chain[k]
                /\ evs[Len(evs)].stream = "stdout"

\* a fetch failure that is not muted: an error, two causes and the report line
C13_Witness ==
    \E r \in RecordSet :
        /\ r.tag = Some("fetch-failure")
        /\ ~Muted(r)
        /\ Len(ChainOf(r)) = 3
        /\ Len(PrintedFor(r.idx)) = 4

----------------------------------------------------------------------------
(* C14, C15: Link::parse_with_root and split_fragment on their own *)

StrDocsRoot == <<"/", "d", "o", "c", "s">>

StrRootRelative == <<"/", "a", "/", "b">>

StrDocsAB == <<"/", "d", "o", "c", "s", "/", "a", "/", "b">>

StrUpX == <<".", ".", "/", "x", ".", "m", "d">>

StrDocPath == <<"a", "/", "b", "/", "c", ".", "m", "d">>

StrDocDir == <<"a", "/", "b", "/">>

\* link texts without fragment: relative, root-relative, with a scheme that
\* is supported and with one that is not
LinkBases ==
    {<<"b">>, StrRootRelative, StrDocsAB, StrUpX,
     <<"h", "t", "t", "p", ":", "/", "/", "e">>, <<"m", ":", "x">>}

\* what follows the base: nothing, an empty fragment, a fragment, and a
\* fragment with a second '#' in it
LinkSuffixes == {<<>>, <<"#">>, <<"#", "f">>, <<"#", "f", "#", "g">>}

LinkTexts == {b \o x : b \in LinkBases, x \in LinkSuffixes}

LinkPaths == {<<"a">>, StrDocPath, <<"d", "/", "a">>}

LinkRoots == {<<"/">>, StrDocsRoot, <<"/", "r">>}

LinkArgs == [raw : LinkTexts, path : LinkPaths, root : LinkRoots]

InitLink == InitCall(LinkArgs)

\* main.rs lines 102-104: parse_with_root(link, path, &opt.root), then split_fragment()
CallParseWithRoot == Return(ParseLink(arg.raw, arg.path, arg.root))

SpecLink == InitLink /\ [][CallParseWithRoot]_vars

Hashes(x) == {i \in 1..Len(x) : x[i] = "#"}

\* C14: the base of a parsed link holds no '#'; a raw link without '#' has
\* no fragment; a raw link with exactly one '#' has everything after it as
\* fragment, which is the empty string, and not absent, when the '#' is last.
C14_SplitFragment ==
    (pc = "return" /\ IsSome(ret[1])) =>
        LET parsed == ret[1][1]
            hs == Hashes(arg.raw)
        IN  /\ Hashes(parsed.base) = {}
            /\ hs = {} => parsed.fragment = None
            /\ Cardinality(hs) = 1 =>
                  \A h \in hs :
                      /\ parsed.fragment = Some(SubSeq(arg.raw, h + 1, Len(arg.raw)))
                      /\ parsed.fragment # None
                      /\ h = Len(arg.raw) => parsed.fragment = Some(<<>>)

\* a link whose only '#' is its last character: the fragment is the empty string
C14_Witness ==
    /\ pc = "return"
    /\ IsSome(ret[1])
    /\ Cardinality(Hashes(arg.raw)) = 1
    /\ arg.raw[Len(arg.raw)] = "#"
    /\ ret[1][1].fragment = Some(<<>>)

\* the raw link without its fragment
RawBase(raw) ==
    IF Hashes(raw) = {} THEN raw
    ELSE SubSeq(raw, 1, (CHOOSE h \in Hashes(raw) : \A g \in Hashes(raw) : h <= g) - 1)

HasScheme(raw) == \E i \in 1..Len(RawBase(raw)) : RawBase(raw)[i] = ":"

\* C15: a link that starts with '/' resolves to the root joined with the
\* link, so that /a/b under the root /docs has the base of /docs/a/b (under
\* the root /); a relative link resolves against the directory of its
\* document, and its base is the same for every root.
C15_LocalResolution ==
    (pc = "return" /\ IsSome(ret[1]) /\ ~HasScheme(arg.raw)) =>
        LET base == ret[1][1].base
            rb == RawBase(arg.raw)
        IN  IF rb # <<>> /\ rb[1] = "/"
            THEN /\ arg.root = <<"/">> => base = rb
                 /\ arg.root # <<"/">> =>
                       /\ base = arg.root \o rb
                       /\ Some(ret[1][1]) = ParseLink(arg.root \o arg.raw, arg.path, <<"/">>)
                 /\ (rb = StrRootRelative /\ arg.root = StrDocsRoot) => base = StrDocsAB
            ELSE /\ \E n \in 0..Len(arg.path) :
                       /\ n = 0 \/ arg.path[n] = "/"
                       /\ \A k \in (n + 1)..Len(arg.path) : arg.path[k] # "/"
                       /\ base = SubSeq(arg.path, 1, n) \o rb
                 /\ \A root \in LinkRoots :
                       ParseLink(arg.raw, arg.path, root) = ret[1]
                 /\ (rb = StrUpX /\ arg.path = StrDocPath) => base = StrDocDir \o StrUpX

\* /a/b under the root /docs resolved to /docs/a/b
C15_Witness ==
    /\ pc = "return"
    /\ arg.raw = StrRootRelative
    /\ arg.root = StrDocsRoot
    /\ IsSome(ret[1])
    /\ ret[1][1].base = StrDocsAB

----------------------------------------------------------------------------
(* C16: one stdin line of the alternate input, on its own *)

\* main.rs lines 82-91: the triple pushed for one stdin line; None stands
\* for the panic of one of the two unwraps
TripleOf(l) ==
    LET cap == Captures(l)
    IN  IF ~IsSome(cap) THEN None
        ELSE LET n == ParseUsize(Unwrap(cap).lineno)
             IN  IF ~IsSome(n) THEN None
                 ELSE Some([path |-> Unwrap(cap).path,
                            linenum |-> Unwrap(n),
                            link |-> Unwrap(cap).link])

StrDocsA == <<"d", "o", "c", "s", "/", "a", ".", "m", "d">>

StrExampleLink == <<"h", "t", "t", "p", ":", "/", "/", "e", "x", "a", "m", "p", "l", "e", ".", "c", "o", "m">>

\* usize::MAX + 1 = 18446744073709551616
StrUsizeOverflow ==
    <<"1", "8", "4", "4", "6", "7", "4", "4", "0", "7",
      "3", "7", "0", "9", "5", "5", "1", "6", "1", "6">>

\* paths: plain, and with colons, digits and spaces of their own
LinePaths == {StrDocsA, <<"a">>, <<"a", ":", "1", ":", " ", "b">>, <<"a", " ", "b">>}

LineNumbers == {<<"1", "2">>, <<"1">>, <<"0", "0", "7">>, StrUsizeOverflow}

\* discarded tokens: none, one, and one that looks like a line number field
LineTokens == {<<>>, <<"x">>, <<"b", ":", "2", ":">>}

LineLinks == {StrExampleLink, <<"b">>, <<"b", "#", "f">>, <<>>}

LineArgs == [path : LinePaths, digits : LineNumbers, token : LineTokens, link : LineLinks]

InitStdinLine == InitCall(LineArgs)

CallTripleOf == Return(TripleOf(StdinLine(arg.path, arg.digits, arg.token, arg.link)))

SpecStdinLine == InitStdinLine /\ [][CallTripleOf]_vars

\* the line gave the triple of its path, its line number and its link
ParsedAsWritten ==
    /\ IsSome(ret[1])
    /\ ret[1][1].path = arg.path
    /\ ToDecimal(ret[1][1].linenum) = StripZeros(arg.digits)
    /\ ret[1][1].link = arg.link

\* C16 as stated: every stdin line path:line: token link, with a token and
\* a link without space and a decimal line number, parses to the triple
\* (path, line, link).
C16_StdinLineParses == pc = "return" => ParsedAsWritten

\* C16: a stdin line path:line: token link, with a token and a link without
\* space and a decimal line number that fits a usize, parses to the triple
\* (path, line, link), the token discarded; docs/a.md:12: x http://example.com
\* gives (docs/a.md, 12, http://example.com).
C16_StdinLineParsesUsize ==
    (pc = "return" /\ ~DigitsGreater(StripZeros(arg.digits), UsizeMaxDigits)) =>
        /\ ParsedAsWritten
        /\ (arg = [path |-> StrDocsA, digits |-> <<"1", "2">>,
                   token |-> <<"x">>, link |-> StrExampleLink]) =>
               ret[1] = Some([path |-> StrDocsA, linenum |-> 12, link |-> StrExampleLink])

\* the example line of the spec has been parsed
C16_Witness ==
    /\ pc = "return"
    /\ arg = [path |-> StrDocsA, digits |-> <<"1", "2">>,
              token |-> <<"x">>, link |-> StrExampleLink]
    /\ ret[1] = Some([path |-> StrDocsA, linenum |-> 12, link |-> StrExampleLink])

----------------------------------------------------------------------------
(* C17 *)

\* C17: in check mode the cache changes only when a link is processed whose
\* base is not cached: then exactly one entry is added, for that base; a link
\* whose base is cached leaves the mapping as it is; no entry is ever
\* overwritten or removed, so that the keys are the bases of the links
\* processed so far.
C17_CacheChangesOnMissOnly ==
    [][/\ \A b \in DOMAIN all_targets :
             b \in DOMAIN all_targets' /\ all_targets'[b] = all_targets[b]
       /\ all_targets' # all_targets =>
             /\ opt.check
             /\ pc = "process"
             /\ Len(records') = Len(records) + 1
       /\ (opt.check /\ Len(records') = Len(records) + 1) =>
             LET base == records'[Len(records')].base
             IN  /\ base = Unwrap(Parsed).base
                 /\ base \in DOMAIN all_targets => all_targets' = all_targets
                 /\ base \notin DOMAIN all_targets =>
                       DOMAIN all_targets' = DOMAIN all_targets \cup {base}
       /\ opt.check =>
             DOMAIN all_targets' = {records'[k].base : k \in 1..Len(records')}
      ]_vars

\* two links of one base: the second found the entry the first had added
C17_Witness ==
    /\ opt.check
    /\ Len(records) = 2
    /\ records[1].base = records[2].base
    /\ DOMAIN all_targets = {records[1].base}
    /\ Len(fetches) = 1

----------------------------------------------------------------------------
(* C19 *)

----------------------------------------------------------------------------
(* C18 *)

\* the Tag the run with the empty mute set gave input link i
UnmutedTag(i) ==
    LET k == CHOOSE k \in 1..Len(unmuted.records) : unmuted.records[k].idx = i
    IN  unmuted.records[k].tag

\* C18: the mute set decides only which lines are printed: with the same
\* input and the same fetch results, the Tag of every link, the retrievals
\* and their order, and the cache are those of the run with the empty mute
\* set, and the report lines are those of that run without the lines whose
\* Tag is muted; a muted link has had its base fetched.
C18_MuteSetOnlyFiltersOutput ==
    /\ records = unmuted.records
    /\ fetches = unmuted.fetches
    /\ all_targets = unmuted.all_targets
    /\ Stdout = SelectSeq(unmuted.output,
                          LAMBDA e : /\ e.stream = "stdout"
                                     /\ ~IsSilenced(UnmutedTag(e.link), opt.silence))
    /\ \A r \in RecordSet :
          Muted(r) => \E f \in FetchSet : f.base = r.base /\ f.link <= r.idx

\* a finished run in which a muted link, the first of its base, left a line
\* out that the run with the empty mute set printed
C18_Witness ==
    /\ pc = "done"
    /\ \E r \in RecordSet :
          /\ Muted(r)
          /\ \E f \in FetchSet : f.link = r.idx
          /\ ReportsOf(r.idx) = {}
          /\ \E k \in 1..Len(unmuted.output) :
                unmuted.output[k].link = r.idx /\ unmuted.output[k].stream = "stdout"

----------------------------------------------------------------------------
(* C20: a report line printed, then read by the alternate input *)

NoLineBreak(s) == \A i \in 1..Len(s) : s[i] # "\n"

\* BufRead::lines: the text cut at its line breaks, without them
RECURSIVE Lines(_)
Lines(text) ==
    IF text = <<>> THEN <<>>
    ELSE LET n == IndexOf(text, "\n")
         IN  IF n = 0 THEN <<text>>
             ELSE <<SubSeq(text, 1, n - 1)>> \o Lines(Drop(text, n))

\* main.rs lines 80-92: the triples pushed for the text on stdin; None
\* stands for the panic on a line that gives no triple
StdinTriples(text) ==
    LET ls == Lines(text)
    IN  IF \E k \in 1..Len(ls) : ~IsSome(TripleOf(ls[k])) THEN None
        ELSE Some([k \in 1..Len(ls) |-> Unwrap(TripleOf(ls[k]))])

\* println!: the report line and its line break
Println(text) == text \o <<"\n">>

\* paths: plain, with colons, digits and spaces, and with a line break
ReportPaths ==
    {<<"a">>, StrDocsA, <<"a", ":", "1", ":", " ", "b">>, <<"a", "\n", "b">>}

ReportLineNums == {1, 12, 1000}

ReportTags == {None} \cup {Some(t) : t \in Tags}

\* raw links: without and with a fragment, a URL, the empty link, with a space
ReportLinks ==
    {<<"b">>, <<"b", "#", "f">>, StrExampleLink, <<>>, <<"b", " ", "c">>}

ReportArgs ==
    [path : ReportPaths, linenum : ReportLineNums, tag : ReportTags, link : ReportLinks]

InitRoundTrip == InitCall(ReportArgs)

CallRoundTrip ==
    Return(StdinTriples(Println(FormatLine(arg.path, arg.linenum, arg.tag, arg.link))))

SpecRoundTrip == InitRoundTrip /\ [][CallRoundTrip]_vars

TagFieldHasNoSpace == IsSome(arg.tag) => NoSpace(TagDisplay(Unwrap(arg.tag)))

\* the text read back gave the one triple of the Record printed
ReadBackSame ==
    ret[1] = Some(<<[path |-> arg.path, linenum |-> arg.linenum, link |-> arg.link]>>)

====
